---- MODULE Spec2Model ----
(***************************************************************************)
(* Connection supervision of gigs-rm-client.                               *)
(*                                                                         *)
(*   SerialHandler (src/Module/serial_handler.py): the link registry       *)
(*   serial_ports, the readiness flag is_connected, the supervisor thread  *)
(*   setup_worker, one port_monitor thread per opened handle, the reset    *)
(*   protocol reset_and_reconnect_port(s), send_message and cleanup.       *)
(*                                                                         *)
(*   TCPHandler (src/Module/tcp_handler.py): the socket, its readiness     *)
(*   flag, the supervisor thread setup_worker, tcp_monitor, send_message.  *)
(*                                                                         *)
(*   The line parser _parse_serial_data, on lines that are sequences of    *)
(*   characters, with float() by its grammar; the devices, which send      *)
(*   scripted lines as bytes; the messages both handlers put on the wire.  *)
(*                                                                         *)
(* Specifications: Spec and FairSpec (SerialHandler and its resets),       *)
(* SendSpec (with a sender), ShutdownSpec (with cleanup), TcpSpec and      *)
(* TcpFairSpec (TCPHandler), RetrySpec (both supervisors), RelaySpec (the  *)
(* outbound messages), ParseSpec (the parser), DeviceSpec and ScenarioSpec *)
(* (devices, monitors and dispatch).                                       *)
(*                                                                         *)
(* Threads interleave at the blocking calls of the code (time.sleep and    *)
(* the device I/O between them): send_message goes through its links one   *)
(* step each, cleanup one close() a step, and tcp_monitor waits inside     *)
(* recv() between its test of the flag and what it does with the result.   *)
(* Every device operation that can raise (open, setDTR, close, write,      *)
(* read, connect, sendall, recv) is an environment choice between          *)
(* returning and raising, and so is a call of the registered callback.     *)
(***************************************************************************)
EXTENDS Integers, Sequences, FiniteSets, TLC

\* ------------------------------------------------------------------ bounds
\* Number of serial handles (serial.Serial objects) ever constructed.
MaxHandles == 3

\* Number of sockets (socket.socket objects) ever created.
MaxSockets == 3

\* Length of the lines over Alphabet that are passed to the line parser.
MaxLen == 3

\* Device identities the OS may enumerate: two data ports and one identity of
\* the excluded list.
Comports == {"/dev/ttyUSB0", "/dev/ttyUSB1", "/dev/cu.BT-RY"}

\* Threads that call the public reset operations from outside the handler.
Callers == {"caller"}

\* -------------------------------------------------------------- constants
excluded_ports ==
    { "/dev/cu.debug-console",
      "/dev/cu.Bluetooth-Incoming-Port",
      "/dev/cu.iPhone-WirelessiAP",
      "/dev/tty.Bluetooth-Incoming-Port",
      "/dev/tty.debug-console",
      "/dev/cu.BT-RY" }

Threads == {"setup_worker"} \cup Callers

\* ---------------------------------------------------------------------- text
\* A str is the sequence of its characters, a bytes object the sequence of its
\* byte values.  Ascii is the code point of the ASCII characters the model
\* uses.
Ascii ==
    ("\t" :> 9) @@ ("\n" :> 10) @@ ("\r" :> 13) @@ (" " :> 32) @@ ("+" :> 43) @@ ("-" :> 45) @@ ("." :> 46) @@
    ("0" :> 48) @@ ("1" :> 49) @@ ("2" :> 50) @@ ("3" :> 51) @@ ("4" :> 52) @@
    ("5" :> 53) @@ ("6" :> 54) @@ ("7" :> 55) @@ ("8" :> 56) @@ ("9" :> 57) @@
    (":" :> 58) @@ ("C" :> 67) @@ ("E" :> 69) @@ ("L" :> 76) @@ ("M" :> 77) @@
    ("P" :> 80) @@ ("R" :> 82) @@ ("S" :> 83) @@ ("U" :> 85) @@ ("_" :> 95) @@
    ("a" :> 97) @@ ("d" :> 100) @@ ("e" :> 101) @@ ("f" :> 102) @@ ("g" :> 103) @@
    ("i" :> 105) @@ ("k" :> 107) @@ ("l" :> 108) @@ ("n" :> 110) @@ ("o" :> 111) @@
    ("r" :> 114) @@ ("t" :> 116) @@ ("y" :> 121)

\* The code point of the characters outside ASCII the model uses: one that
\* UTF-8 encodes in two bytes, one in three and one in four.  The last is
\* outside the Basic Multilingual Plane and is written by its code point.
Unicode == ("é" :> 233) @@ ("€" :> 8364) @@ ("U+1F600" :> 128512)

\* The characters of Unicode that are letters (the model has no digit and no
\* whitespace outside ASCII).
UnicodeLetters == {"é"}

\* ord(c).
Ord == Ascii @@ Unicode

\* chr(cp), for the characters the model uses.
Chr(cp) == CHOOSE c \in DOMAIN Ord : Ord[c] = cp

\* The UTF-8 encoding of a code point.
Utf8Bytes(cp) ==
    IF cp < 128 THEN << cp >>
    ELSE IF cp < 2048 THEN << 192 + (cp \div 64), 128 + (cp % 64) >>
    ELSE IF cp < 65536
         THEN << 224 + (cp \div 4096), 128 + ((cp \div 64) % 64), 128 + (cp % 64) >>
    ELSE << 240 + (cp \div 262144), 128 + ((cp \div 4096) % 64), 128 + ((cp \div 64) % 64),
            128 + (cp % 64) >>

\* str.encode(): UTF-8.
RECURSIVE encode(_)
encode(s) == IF s = << >> THEN << >> ELSE Utf8Bytes(Ord[Head(s)]) \o encode(Tail(s))

\* A continuation byte of UTF-8.
Continuation(b) == b \in 128..191

\* The second bytes UTF-8 allows after the first byte b of a sequence of
\* three or of four bytes (no overlong form, no surrogate, nothing above
\* U+10FFFF).
Second3(b) == IF b = 224 THEN 160..191 ELSE IF b = 237 THEN 128..159 ELSE 128..191
Second4(b) == IF b = 240 THEN 144..191 ELSE IF b = 244 THEN 128..143 ELSE 128..191

\* The length of the valid UTF-8 sequence that starts at bs[i]; 0 when none
\* starts there.
Utf8Len(bs, i) ==
    LET b == bs[i]
        n == Len(bs)
    IN  IF b < 128 THEN 1
        ELSE IF b \in 194..223 /\ i + 1 <= n /\ Continuation(bs[i + 1]) THEN 2
        ELSE IF /\ b \in 224..239
                /\ i + 2 <= n
                /\ bs[i + 1] \in Second3(b)
                /\ Continuation(bs[i + 2]) THEN 3
        ELSE IF /\ b \in 240..244
                /\ i + 3 <= n
                /\ bs[i + 1] \in Second4(b)
                /\ Continuation(bs[i + 2])
                /\ Continuation(bs[i + 3]) THEN 4
        ELSE 0

\* The code point of the valid sequence of n bytes that starts at bs[i].
Utf8CodePoint(bs, i, n) ==
    IF n = 1 THEN bs[i]
    ELSE IF n = 2 THEN (bs[i] - 192) * 64 + (bs[i + 1] - 128)
    ELSE IF n = 3 THEN (bs[i] - 224) * 4096 + (bs[i + 1] - 128) * 64 + (bs[i + 2] - 128)
    ELSE (bs[i] - 240) * 262144 + (bs[i + 1] - 128) * 4096 + (bs[i + 2] - 128) * 64
            + (bs[i + 3] - 128)

\* The code points of the valid sequences of bs from bs[i] on; a byte at
\* which no valid sequence starts is left out.
RECURSIVE CodePoints(_, _)
CodePoints(bs, i) ==
    IF i > Len(bs) THEN << >>
    ELSE LET n == Utf8Len(bs, i) IN
         IF n = 0 THEN CodePoints(bs, i + 1)
         ELSE << Utf8CodePoint(bs, i, n) >> \o CodePoints(bs, i + n)

\* Whether bs is valid UTF-8 from bs[i] on.
RECURSIVE IsUtf8(_, _)
IsUtf8(bs, i) ==
    i > Len(bs) \/ (Utf8Len(bs, i) # 0 /\ IsUtf8(bs, i + Utf8Len(bs, i)))

\* bytes.decode(errors="ignore"): the characters of the valid UTF-8 sequences
\* of bs; the bytes that belong to none are dropped.
decode(bs) ==
    LET cps == CodePoints(bs, 1) IN
    [i \in 1..Len(cps) |-> Chr(cps[i])]

\* The messages the collaborator passes to the send primitives: decimal
\* numbers as text (samyang-rm.py line 108, str(kcal_increment)).
Messages == { <<"0", ".", "5">>, <<"1", "2", ".", "5">> }

\* The message of the sends of a specification that does not vary the text.
Sample == <<"1", "2", ".", "5">>

\* The payload when the step just taken has passed none to write() or sendall().
NoPayload == << >>

\* tcp_wire when the step just taken is no call of TCPHandler.send_message.
NoWire == [message |-> << >>, payload |-> NoPayload]

\* serial_handler.py line 164: f"{message}\n".encode().
SerialPayload(message) == encode(message \o <<"\n">>)

\* tcp_handler.py line 44: str(message).encode().
TcpPayload(message) == encode(message)

\* ------------------------------------------------------------- str methods
Whitespace == {" ", "\t", "\n", "\r"}

RECURSIVE lstrip(_)
lstrip(s) == IF s # << >> /\ Head(s) \in Whitespace THEN lstrip(Tail(s)) ELSE s

RECURSIVE rstrip(_)
rstrip(s) ==
    IF s # << >> /\ s[Len(s)] \in Whitespace THEN rstrip(SubSeq(s, 1, Len(s) - 1)) ELSE s

\* str.strip().
strip(s) == rstrip(lstrip(s))

IsDigit(c) == Ord[c] \in 48..57

IsAlnumChar(c) ==
    \/ Ord[c] \in (48..57) \cup (65..90) \cup (97..122)
    \/ c \in UnicodeLetters

\* str.isalnum(): at least one character, all of them letters or digits.
isalnum(s) == s # << >> /\ \A i \in 1..Len(s) : IsAlnumChar(s[i])

\* ------------------------------------------------------------------ float()
\* float(s) of a str: surrounding whitespace is dropped; an underscore is
\* accepted between two digits; then an optional sign and either "inf",
\* "infinity" or "nan" in any case, or digits with an optional point and an
\* optional exponent, with at least one digit in the mantissa and in the
\* exponent.  Anything else raises ValueError.
SameLetter(c, l) == Ord[c] = Ord[l] \/ Ord[c] = Ord[l] - 32

IsWord(s, w) == Len(s) = Len(w) /\ \A i \in 1..Len(w) : SameLetter(s[i], w[i])

UnderscoresOk(s) ==
    \A i \in 1..Len(s) :
        s[i] = "_" => (i > 1 /\ i < Len(s) /\ IsDigit(s[i - 1]) /\ IsDigit(s[i + 1]))

DropUnderscores(s) == SelectSeq(s, LAMBDA c : c # "_")

Unsigned(s) == IF s # << >> /\ Head(s) \in {"+", "-"} THEN Tail(s) ELSE s

Negative(s) == s # << >> /\ Head(s) = "-"

AllDigits(s) == \A i \in 1..Len(s) : IsDigit(s[i])

\* The index of the first character of s that is in cs, 0 when there is none.
FirstOf(s, cs) ==
    IF \E i \in 1..Len(s) : s[i] \in cs
    THEN CHOOSE i \in 1..Len(s) : s[i] \in cs /\ \A j \in 1..(i - 1) : s[j] \notin cs
    ELSE 0

Before(s, cs) == IF FirstOf(s, cs) = 0 THEN s ELSE SubSeq(s, 1, FirstOf(s, cs) - 1)

After(s, cs) == IF FirstOf(s, cs) = 0 THEN << >> ELSE SubSeq(s, FirstOf(s, cs) + 1, Len(s))

Mantissa(u) == Before(u, {"e", "E"})
ExponentPart(u) == After(u, {"e", "E"})
IntPart(u) == Before(Mantissa(u), {"."})
FracPart(u) == After(Mantissa(u), {"."})

IsDecimal(u) ==
    /\ AllDigits(IntPart(u))
    /\ AllDigits(FracPart(u))
    /\ Len(IntPart(u)) + Len(FracPart(u)) > 0
    /\ FirstOf(u, {"e", "E"}) # 0
          => /\ Unsigned(ExponentPart(u)) # << >>
             /\ AllDigits(Unsigned(ExponentPart(u)))

\* float(s) returns.
IsFloat(s) ==
    LET t == strip(s) IN
    /\ UnderscoresOk(t)
    /\ LET u == Unsigned(DropUnderscores(t)) IN
       IsWord(u, <<"i", "n", "f">>) \/ IsWord(u, <<"i", "n", "f", "i", "n", "i", "t", "y">>)
          \/ IsWord(u, <<"n", "a", "n">>) \/ IsDecimal(u)

RECURSIVE Nat10(_)
Nat10(ds) ==
    IF ds = << >> THEN 0
    ELSE 10 * Nat10(SubSeq(ds, 1, Len(ds) - 1)) + (Ord[ds[Len(ds)]] - 48)

RECURSIVE NumDigits(_)
NumDigits(n) == IF n < 10 THEN 1 ELSE 1 + NumDigits(n \div 10)

\* The number m * 10^e with m not a multiple of 10, zero as 0 * 10^0.
RECURSIVE Normal(_, _)
Normal(m, e) ==
    IF m = 0 THEN [m |-> 0, e |-> 0]
    ELSE IF m % 10 = 0 THEN Normal(m \div 10, e + 1)
    ELSE [m |-> m, e |-> e]

RECURSIVE Pow10(_)
Pow10(k) == IF k = 0 THEN 1 ELSE 10 * Pow10(k - 1)

\* The first nine digits of a mantissa of at most nine digits.
Lead9(m) == m * Pow10(9 - NumDigits(m))

\* A float: the decimal number the text denotes (the double nearest to it,
\* for mantissas of at most nine digits), an infinity or nan.  The text
\* rounds to inf from 1.7976931348623158e308 on and to zero up to
\* 2.4703282292062327e-324.
Finite(neg, n) ==
    LET x == NumDigits(n.m) - 1 + n.e IN
    IF n.m # 0 /\ (x > 308 \/ (x = 308 /\ Lead9(n.m) > 179769313))
    THEN [cls |-> "inf", neg |-> neg, m |-> 0, e |-> 0]
    ELSE IF n.m # 0 /\ (x < -324 \/ (x = -324 /\ Lead9(n.m) <= 247032822))
    THEN [cls |-> "finite", neg |-> neg, m |-> 0, e |-> 0]
    ELSE [cls |-> "finite", neg |-> neg, m |-> n.m, e |-> n.e]

\* The value float(s) returns, for an s with IsFloat(s).
float(s) ==
    LET t == DropUnderscores(strip(s))
        u == Unsigned(t)
        x == ExponentPart(u)
    IN  IF IsWord(u, <<"n", "a", "n">>)
        THEN [cls |-> "nan", neg |-> FALSE, m |-> 0, e |-> 0]
        ELSE IF IsWord(u, <<"i", "n", "f">>)
                \/ IsWord(u, <<"i", "n", "f", "i", "n", "i", "t", "y">>)
        THEN [cls |-> "inf", neg |-> Negative(t), m |-> 0, e |-> 0]
        ELSE Finite(Negative(t),
                    Normal(Nat10(IntPart(u) \o FracPart(u)),
                           (IF Negative(x) THEN 0 - Nat10(Unsigned(x)) ELSE Nat10(Unsigned(x)))
                              - Len(FracPart(u))))

\* ---------------------------------------------------------------- GameEvent
\* The score of an event that carries none.
NoScore == [cls |-> "none", neg |-> FALSE, m |-> 0, e |-> 0]

\* The record of Module/events.py: kind, source, raw text, optional score.
GameEvent(kind, raw, score) == [kind |-> kind, source |-> "SERIAL", raw |-> raw, score |-> score]

\* The return value None of _parse_serial_data.
None == [kind |-> "None", source |-> "", raw |-> << >>, score |-> NoScore]

\* p_event before _parse_serial_data has been called.
NotCalled == [kind |-> "-", source |-> "", raw |-> << >>, score |-> NoScore]

\* _parse_serial_data with the number rule tried before the RFID rules.
ParseNumberFirst(s) ==
    IF s = << >> THEN None
    ELSE IF IsFloat(s) THEN GameEvent("SCORE_RECEIVED", s, float(s))
    ELSE IF Len(s) = 8 /\ isalnum(s) THEN GameEvent("RFID_DETECTED", s, NoScore)
    ELSE IF s = <<"a">> THEN GameEvent("RFID_DETECTED", s, NoScore)
    ELSE GameEvent("UNKNOWN", s, NoScore)

\* Lines 90-105.
_parse_serial_data(s) ==
    IF s = << >> THEN None
    ELSE IF Len(s) = 8 /\ isalnum(s) THEN GameEvent("RFID_DETECTED", s, NoScore)
    ELSE IF s = <<"a">> THEN GameEvent("RFID_DETECTED", s, NoScore)
    ELSE IF IsFloat(s) THEN GameEvent("SCORE_RECEIVED", s, float(s))
    ELSE GameEvent("UNKNOWN", s, NoScore)

\* The lines the parser is called with: every text over Alphabet up to MaxLen
\* characters, texts of 8 and 9 characters made of a 7-character prefix and
\* one or two characters of Alphabet, and lines of the serial wire format.
Alphabet == {"0", "1", ".", "-", "e", "a", "n", "_", " "}

RECURSIVE Text(_)
Text(n) ==
    IF n = 0 THEN { << >> }
    ELSE Text(n - 1) \cup { Append(t, c) : t \in Text(n - 1), c \in Alphabet }

Prefixes ==
    { <<"1", "2", "3", "4", "5", "6", "7">>,
      <<"a", "1", "a", "1", "a", "1", "a">>,
      <<"1", ".", "0", "0", "0", "0", "0">>,
      <<"R", "P", "M", ":", "1", "8", "0">> }

WireLines ==
    { <<"R", "P", "M", ":", "1", "8", "0", ".", "0">>,
      <<"R", "P", "M", ":", "2", "0", "0", ".", "0">>,
      <<"k", "C", "a", "l", ":", "1", "2", ".", "5">>,
      <<"P", "U", "L", "S", "E", ":", "i", "g", "n", "o", "r", "e", "d">>,
      <<"i", "n", "f", "i", "n", "i", "t", "y">>,
      <<"-", "i", "n", "f">>,
      <<"+", "1", "2", ".", "5", "E", "+", "2">>,
      <<"é">>,
      <<"1", "2", "3", "4", "5", "6", "7", "é">>,
      <<"1", "2", "3", "4", "5", "6", "7", "€">>,
      <<"1", "é">> }

Lines ==
    Text(MaxLen) \cup { p \o t : p \in Prefixes, t \in Text(2) \ { << >> } } \cup WireLines

\* ------------------------------------------------------------------ devices
\* A line as a device prints it: the text, then "\r\n".
Println(text) == encode(text \o <<"\r", "\n">>)

\* What each device sends, line by line: the first data port the lines of the
\* serial wire format, the second an empty line, a number after a noise
\* byte, and a letter that takes two bytes.
Script ==
    [d \in Comports |->
       IF d = "/dev/ttyUSB0"
       THEN << Println(<<"R", "P", "M", ":", "1", "8", "0", ".", "0">>),
               Println(<<"P", "U", "L", "S", "E", ":", "i", "g", "n", "o", "r", "e", "d">>),
               Println(<<"R", "P", "M", ":", "2", "0", "0", ".", "0">>),
               Println(<<"k", "C", "a", "l", ":", "1", "2", ".", "5">>) >>
       ELSE IF d = "/dev/ttyUSB1"
       THEN << Println(<< >>), <<255>> \o Println(<<"1", "2", ".", "5">>),
               Println(<<"é">>) >>
       ELSE << >>]

\* The value of the local sent_count before line 160 has assigned it.
NoCount == -1

\* opening when the step just taken constructs no serial.Serial.
NoDevice == ""

\* last_send when the step just taken is no call of send_message.
NoSend == [ready |-> FALSE, open |-> {}, raising |-> {}, written |-> {},
           sent_count |-> NoCount, log |-> "-", message |-> << >>, payload |-> NoPayload]

VARIABLES
    serial_ports,     \* self.serial_ports: device -> handle (index of handles)
    port_keys,        \* the insertion order of the keys of self.serial_ports
    is_connected,     \* self.is_connected
    handles,          \* every serial.Serial object constructed so far, with
                      \* the port_monitor thread started on it
    sup_pc,           \* position of setup_worker
    sup_ports,        \* setup_worker: ports, the list comports() returned
    sup_i,            \* setup_worker: index in ports of the next candidate
    connected_count,  \* setup_worker: connected_count of this round
    rs,               \* per thread: its activation of reset_and_reconnect_port(s)
    reset_event,      \* what the step just taken did in the reset operations:
                      \* a call from outside, a return of
                      \* reset_and_reconnect_port, or NoEvent
    opening,          \* the identity passed to serial.Serial(...) in the step
                      \* just taken, NoDevice when the step opens nothing
    last_send,        \* what send_message did, when the step just taken is a
                      \* call of send_message; NoSend after any other step
    tcp_socket,       \* TCPHandler.tcp_socket: 0 for None, else index of sockets
    tcp_is_connected, \* TCPHandler.is_connected
    sockets,          \* every socket.socket object created so far
    tcp_pc,           \* position of TCPHandler's setup_worker
    tcp_mon,          \* whether start_monitoring() has started tcp_monitor
    tcp_recv,         \* tcp_monitor inside recv(): "-" when it is not, else
                      \* whether the connection it waits on is live or dropped
    server_up,        \* whether the remote endpoint accepts connections
    tcp_last_send,    \* what TCPHandler.send_message did in the step just taken
    tcp_wire,         \* the message of that call and the bytes it has passed to
                      \* sendall(); NoWire after any other step
    p_line,           \* _parse_serial_data: the argument s of the last call
    p_event,          \* _parse_serial_data: what that call has returned
    sent,             \* per device: how many lines of its script it has sent
    inbuf,            \* per device: the lines sent that no readline() has
                      \* returned yet, as bytes
    mon_io,           \* per handle whose port_monitor has read a line: the lines
                      \* read, whether the last one is still to be dispatched,
                      \* and the events passed to the callback
    snd,              \* the call of send_message in progress: the index of
                      \* the next link of its loop and what it has done so far
    cln               \* the call of cleanup in progress: the index of the link
                      \* it is at, the handle it is about to close, and the
                      \* size of the registry when its loop began

svars == << serial_ports, port_keys, is_connected, handles, sup_pc, sup_ports, sup_i,
            connected_count, rs, reset_event, opening, last_send >>

tvars == << tcp_socket, tcp_is_connected, sockets, tcp_pc, tcp_mon, tcp_recv, server_up,
            tcp_last_send, tcp_wire >>

pvars == << p_line, p_event >>

dvars == << sent, inbuf, mon_io >>

cvars == << snd, cln >>

vars == << svars, tvars, pvars, dvars, cvars >>

\* ----------------------------------------------------------------- helpers
Range(s) == { s[i] : i \in 1..Len(s) }

\* All duplicate-free sequences over S: the lists comports() may return.
RECURSIVE Perms(_)
Perms(S) ==
    IF S = {} THEN { <<>> }
    ELSE UNION { { <<x>> \o p : p \in Perms(S \ {x}) } : x \in S }

PortLists == UNION { Perms(S) : S \in SUBSET Comports }

Handles == 1..Len(handles)

\* Devices of the registry whose handle is open (port and port.is_open).
OpenLinks(reg, hs) == { d \in DOMAIN reg : hs[reg[d]].is_open }

\* A registry rebuilt around the one entry: the other identities are dropped.
PutAlone(reg, d, h) == [ x \in {d} |-> h ]

\* self.serial_ports[device] = port, remembering dict insertion order.
Put(reg, d, h) == [ x \in DOMAIN reg \cup {d} |-> IF x = d THEN h ELSE reg[x] ]
PutKey(keys, d) == IF d \in Range(keys) THEN keys ELSE Append(keys, d)

\* A serial.Serial object that is constructed but whose port is not opened.
SerialNotOpened(hs, d) == Append(hs, [dev |-> d, is_open |-> FALSE, mon |-> "none"])

\* serial.Serial(device, 115200, timeout=1) returning a handle, followed by
\* start_port_monitoring(device, new_port): a port_monitor thread on it.
Serial(hs, d) == Append(hs, [dev |-> d, is_open |-> TRUE, mon |-> "none"])
start_port_monitoring(hs, h) == [hs EXCEPT ![h].mon = "running"]

\* port.close() on the handles of the set hit.  A port_monitor that is between
\* its port.is_open test and port.in_waiting (line 72) when the handle closes
\* gets the exception of line 76 and leaves its loop: the handles of caught.
\* A port_monitor that is in its sleep sees is_open false from then on and
\* keeps looping.
Close(hs, hit, caught) ==
    [h \in 1..Len(hs) |->
       IF h \in hit
       THEN [hs[h] EXCEPT !.is_open = FALSE,
                          !.mon = IF h \in caught /\ hs[h].is_open /\ hs[h].mon = "running"
                                  THEN "dead" ELSE hs[h].mon]
       ELSE hs[h]]

\* port_monitor threads that have not left their loop.
RunningMonitors(d) == { h \in Handles : handles[h].dev = d /\ handles[h].mon = "running" }

\* port_monitor threads of d whose handle is open: the ones that read.
ReadingMonitors(d) == { h \in RunningMonitors(d) : handles[h].is_open }

\* A port_monitor that has read no line yet.
NoIo == [read |-> << >>, pending |-> FALSE, events |-> << >>]

Io(h) == IF h \in DOMAIN mon_io THEN mon_io[h] ELSE NoIo

SetIo(h, r) == [x \in DOMAIN mon_io \cup {h} |-> IF x = h THEN r ELSE mon_io[x]]

\* The port_monitor threads of hs that are at the test of line 72, not between
\* readline() and the end of _dispatch_serial_input.
AtTest(hs) == { h \in hs : ~Io(h).pending }

\* ----------------------------------------------------------------- is_ready
\* Readiness when it is computed from the links that are open now.
is_ready_from_links == is_connected /\ OpenLinks(serial_ports, handles) # {}

\* Lines 107-109.
is_ready == is_connected

\* ------------------------------------------------------------- setup_worker
\* The test of line 38 alone.
NoDiscoveryFilter(d, reg) == d \notin DOMAIN reg

\* Lines 36-38: the candidate is attempted.
Eligible(d, reg) == d \notin excluded_ports /\ d \notin DOMAIN reg

\* A thread that is in neither reset operation.  In an activation, todo is
\* the devices its loop has still to pass to reset_and_reconnect_port, and dev
\* and port are the locals device and port of the call in progress.
IdleReset == [pc |-> "idle", todo |-> <<>>, dev |-> "", port |-> 0]

Enter(todo) == [IdleReset EXCEPT !.pc = "iter", !.todo = todo]

NoEvent == [kind |-> "-", thread |-> "", dev |-> "", port |-> 0, ret |-> "-", exc |-> FALSE]

\* Thread t has called the public operation op.
Called(op, t) == [NoEvent EXCEPT !.kind = op, !.thread = t]

\* reset_and_reconnect_port(d) of thread t has returned v; h is the handle it
\* found in the registry (0 when it found none), exc whether the value comes
\* from the except branch of lines 145-147.
Returned(t, d, h, v, e) ==
    [kind |-> "return", thread |-> t, dev |-> d, port |-> h, ret |-> v, exc |-> e]

\* A snapshot of every identity the OS shows, whatever the registry holds.
EveryPort(keys) == CHOOSE p \in Perms(Comports) : TRUE

\* Lines 53 and 151: list(self.serial_ports.keys()).
Snapshot(keys) == keys

\* Lines 30-33: the loop test, comports() and connected_count = 0; a
\* comports() that raises goes to the sleep of line 61.
Enumerate ==
    /\ sup_pc = "loop"
    /\ IF is_connected
       THEN /\ sup_pc' = "done"
            /\ UNCHANGED << sup_ports, sup_i, connected_count >>
       ELSE \E ok \in BOOLEAN :
              IF ok
              THEN \E ports \in PortLists :
                     /\ sup_ports' = ports
                     /\ sup_i' = 1
                     /\ connected_count' = 0
                     /\ sup_pc' = "scan"
              ELSE UNCHANGED << sup_pc, sup_ports, sup_i, connected_count >>
    /\ UNCHANGED << serial_ports, port_keys, is_connected, handles, rs >>
    /\ last_send' = NoSend
    /\ opening' = NoDevice
    /\ reset_event' = NoEvent
    /\ UNCHANGED << tvars, pvars, dvars, cvars >>

\* Lines 35-47: one iteration of the for loop.
ScanPort ==
    /\ sup_pc = "scan"
    /\ sup_i <= Len(sup_ports)
    /\ LET d == sup_ports[sup_i] IN
       /\ sup_i' = sup_i + 1
       /\ IF Eligible(d, serial_ports)
          THEN /\ opening' = d
               /\ \E ok \in BOOLEAN :
                    /\ ok => Len(handles) < MaxHandles
                    /\ IF ok
                       THEN LET h == Len(handles) + 1 IN
                            /\ handles' = start_port_monitoring(Serial(handles, d), h)
                            /\ serial_ports' = Put(serial_ports, d, h)
                            /\ port_keys' = PutKey(port_keys, d)
                            /\ connected_count' = connected_count + 1
                       ELSE UNCHANGED << handles, serial_ports, port_keys, connected_count >>
          ELSE /\ opening' = NoDevice
               /\ UNCHANGED << handles, serial_ports, port_keys, connected_count >>
    /\ last_send' = NoSend
    /\ reset_event' = NoEvent
    /\ UNCHANGED << tvars, pvars, dvars, cvars >>
    /\ UNCHANGED << is_connected, sup_pc, sup_ports, rs >>

\* The end of the round when readiness is declared whatever connected_count is.
RoundEndAnyCount ==
    /\ sup_pc = "scan"
    /\ sup_i > Len(sup_ports)
    /\ is_connected' = TRUE
    /\ rs' = [rs EXCEPT !["setup_worker"] = Enter(Snapshot(port_keys))]
    /\ sup_pc' = "reset_pass"
    /\ sup_ports' = << >>
    /\ sup_i' = 1
    /\ UNCHANGED << serial_ports, port_keys, handles, connected_count >>
    /\ last_send' = NoSend
    /\ opening' = NoDevice
    /\ reset_event' = NoEvent
    /\ UNCHANGED << tvars, pvars, dvars, cvars >>

\* Lines 49-61: the end of the round.  The list ports is not read again.
RoundEnd ==
    /\ sup_pc = "scan"
    /\ sup_i > Len(sup_ports)
    /\ IF connected_count > 0
       THEN /\ is_connected' = TRUE
            /\ rs' = [rs EXCEPT !["setup_worker"] = Enter(Snapshot(port_keys))]
            /\ sup_pc' = "reset_pass"
       ELSE /\ sup_pc' = "loop"
            /\ UNCHANGED << is_connected, rs >>
    /\ sup_ports' = << >>
    /\ sup_i' = 1
    /\ UNCHANGED << serial_ports, port_keys, handles, connected_count >>
    /\ last_send' = NoSend
    /\ opening' = NoDevice
    /\ reset_event' = NoEvent
    /\ UNCHANGED << tvars, pvars, dvars, cvars >>

\* ------------------------------------------------ reset_and_reconnect_port(s)
\* Lines 149-152, called from outside: the snapshot list(self.serial_ports.keys()).
reset_and_reconnect_ports(c) ==
    /\ rs[c].pc = "idle"
    /\ rs' = [rs EXCEPT ![c] = Enter(Snapshot(port_keys))]
    /\ reset_event' = Called("reset_and_reconnect_ports", c)
    /\ UNCHANGED << serial_ports, port_keys, is_connected, handles, sup_pc, sup_ports, sup_i,
                    connected_count >>
    /\ last_send' = NoSend
    /\ opening' = NoDevice
    /\ UNCHANGED << tvars, pvars, dvars, cvars >>

\* reset_and_reconnect_port(d) called from outside, for any identity d.
reset_and_reconnect_port(c, d) ==
    /\ rs[c].pc = "idle"
    /\ rs' = [rs EXCEPT ![c] = Enter(<<d>>)]
    /\ reset_event' = Called("reset_and_reconnect_port", c)
    /\ UNCHANGED << serial_ports, port_keys, is_connected, handles, sup_pc, sup_ports, sup_i,
                    connected_count >>
    /\ last_send' = NoSend
    /\ opening' = NoDevice
    /\ UNCHANGED << tvars, pvars, dvars, cvars >>

\* The call in progress returns to the loop of its thread.
Back(r) == [r EXCEPT !.pc = "iter", !.todo = Tail(r.todo), !.dev = "", !.port = 0]

\* Lines 123-133: the lookup, the is_open test and setDTR(False).
ResetEnter(t) ==
    /\ rs[t].pc = "iter"
    /\ rs[t].todo # <<>>
    /\ LET d == Head(rs[t].todo) IN
       IF d \notin DOMAIN serial_ports
       THEN /\ rs' = [rs EXCEPT ![t] = Back(rs[t])]
            /\ reset_event' = Returned(t, d, 0, "False", FALSE)
       ELSE LET h == serial_ports[d] IN
            IF ~handles[h].is_open
            THEN /\ rs' = [rs EXCEPT ![t] = Back(rs[t])]
                 /\ reset_event' = Returned(t, d, h, "None", FALSE)
            ELSE \E ok \in BOOLEAN :
                   IF ok
                   THEN /\ rs' = [rs EXCEPT ![t].pc = "dtr_low", ![t].dev = d, ![t].port = h]
                        /\ reset_event' = NoEvent
                   ELSE /\ rs' = [rs EXCEPT ![t] = Back(rs[t])]
                        /\ reset_event' = Returned(t, d, h, "False", TRUE)
    /\ UNCHANGED << serial_ports, port_keys, is_connected, handles, sup_pc, sup_ports, sup_i,
                    connected_count >>
    /\ last_send' = NoSend
    /\ opening' = NoDevice
    /\ UNCHANGED << tvars, pvars, dvars, cvars >>

\* Lines 134-136: setDTR(True) and port.close(), then the reboot delay.
ResetToggleClose(t) ==
    /\ rs[t].pc = "dtr_low"
    /\ \E ok \in BOOLEAN :
         IF ok
         THEN /\ \E caught \in SUBSET AtTest({rs[t].port}) :
                   handles' = Close(handles, {rs[t].port}, caught)
              /\ rs' = [rs EXCEPT ![t].pc = "rebooting"]
              /\ reset_event' = NoEvent
         ELSE /\ rs' = [rs EXCEPT ![t] = Back(rs[t])]
              /\ reset_event' = Returned(t, rs[t].dev, rs[t].port, "False", TRUE)
              /\ UNCHANGED handles
    /\ UNCHANGED << serial_ports, port_keys, is_connected, sup_pc, sup_ports, sup_i,
                    connected_count >>
    /\ last_send' = NoSend
    /\ opening' = NoDevice
    /\ UNCHANGED << tvars, pvars, dvars, cvars >>

\* Lines 139-147: the reopen, the registry update and the new monitor.
ResetReopen(t) ==
    /\ rs[t].pc = "rebooting"
    /\ LET d == rs[t].dev IN
       /\ opening' = d
       /\ rs' = [rs EXCEPT ![t] = Back(rs[t])]
       /\ \E ok \in BOOLEAN :
            /\ ok => Len(handles) < MaxHandles
            /\ IF ok
               THEN LET h == Len(handles) + 1 IN
                    /\ handles' = start_port_monitoring(Serial(handles, d), h)
                    /\ serial_ports' = Put(serial_ports, d, h)
                    /\ port_keys' = PutKey(port_keys, d)
                    /\ reset_event' = Returned(t, d, rs[t].port, "True", FALSE)
               ELSE /\ reset_event' = Returned(t, d, rs[t].port, "False", TRUE)
                    /\ UNCHANGED << handles, serial_ports, port_keys >>
    /\ last_send' = NoSend
    /\ UNCHANGED << tvars, pvars, dvars, cvars >>
    /\ UNCHANGED << is_connected, sup_pc, sup_ports, sup_i, connected_count >>

\* The for loop over the snapshot is exhausted: the caller returns; for
\* setup_worker this is the return of line 56.
ResetReturn(t) ==
    /\ rs[t].pc = "iter"
    /\ rs[t].todo = <<>>
    /\ rs' = [rs EXCEPT ![t] = IdleReset]
    /\ IF t = "setup_worker" THEN sup_pc' = "done" ELSE UNCHANGED sup_pc
    /\ UNCHANGED << serial_ports, port_keys, is_connected, handles, sup_ports, sup_i,
                    connected_count >>
    /\ last_send' = NoSend
    /\ opening' = NoDevice
    /\ reset_event' = NoEvent
    /\ UNCHANGED << tvars, pvars, dvars, cvars >>

\* ------------------------------------------------------------- port_monitor
\* A port_monitor that takes its link out of the registry when the read raises.
port_monitor_unregisters(h) ==
    /\ handles[h].mon = "running"
    /\ handles[h].is_open
    /\ ~Io(h).pending
    /\ handles' = [handles EXCEPT ![h].mon = "dead"]
    /\ serial_ports' = [d \in DOMAIN serial_ports \ {handles[h].dev} |-> serial_ports[d]]
    /\ port_keys' = SelectSeq(port_keys, LAMBDA d : d # handles[h].dev)
    /\ last_send' = NoSend
    /\ opening' = NoDevice
    /\ reset_event' = NoEvent
    /\ UNCHANGED << tvars, pvars, dvars, cvars >>
    /\ UNCHANGED << is_connected, sup_pc, sup_ports, sup_i, connected_count, rs >>

\* Lines 70-79: one iteration of the loop on an open handle, without the
\* line it may read.  in_waiting or readline() returns, or raises and the
\* thread leaves the loop (lines 76-78).  On a closed handle the iteration
\* does nothing.
port_monitor(h) ==
    /\ handles[h].mon = "running"
    /\ handles[h].is_open
    /\ ~Io(h).pending
    /\ \E ok \in BOOLEAN :
         handles' = [handles EXCEPT ![h].mon = IF ok THEN "running" ELSE "dead"]
    /\ last_send' = NoSend
    /\ opening' = NoDevice
    /\ reset_event' = NoEvent
    /\ UNCHANGED << tvars, pvars, dvars, cvars >>
    /\ UNCHANGED << serial_ports, port_keys, is_connected, sup_pc, sup_ports, sup_i,
                    connected_count, rs >>

\* A device sends the next line of its script to the host that has it open.
DeviceSend(d) ==
    /\ sent[d] < Len(Script[d])
    /\ \E h \in Handles : handles[h].dev = d /\ handles[h].is_open
    /\ sent' = [sent EXCEPT ![d] = sent[d] + 1]
    /\ inbuf' = [inbuf EXCEPT ![d] = Append(inbuf[d], Script[d][sent[d] + 1])]
    /\ last_send' = NoSend
    /\ opening' = NoDevice
    /\ reset_event' = NoEvent
    /\ UNCHANGED << serial_ports, port_keys, is_connected, handles, sup_pc, sup_ports, sup_i,
                    connected_count, rs, mon_io >>
    /\ UNCHANGED << tvars, pvars, cvars >>

\* Lines 72-73: the handle is open, a line is waiting, and readline() returns
\* it: raw is the line decoded and stripped.
MonitorRead(h) ==
    /\ handles[h].mon = "running"
    /\ handles[h].is_open
    /\ ~Io(h).pending
    /\ inbuf[handles[h].dev] # << >>
    /\ LET d == handles[h].dev
           raw == strip(decode(Head(inbuf[d])))
       IN  /\ inbuf' = [inbuf EXCEPT ![d] = Tail(inbuf[d])]
           /\ mon_io' = SetIo(h, [Io(h) EXCEPT !.read = Append(Io(h).read, raw),
                                               !.pending = TRUE])
    /\ last_send' = NoSend
    /\ opening' = NoDevice
    /\ reset_event' = NoEvent
    /\ UNCHANGED << serial_ports, port_keys, is_connected, handles, sup_pc, sup_ports, sup_i,
                    connected_count, rs, sent >>
    /\ UNCHANGED << tvars, pvars, cvars >>

\* _dispatch_serial_input that calls the callback whatever the parser returns.
DispatchAlways(received_data) == << _parse_serial_data(received_data) >>

\* Lines 84-87: the calls of the registered callback self._on_event that
\* _dispatch_serial_input(received_data) makes, as the list of their arguments.
_dispatch_serial_input(received_data) ==
    LET ev == _parse_serial_data(received_data) IN
    IF ev # None THEN << ev >> ELSE << >>

\* Lines 74-79: port_monitor passes the line it has read to
\* _dispatch_serial_input, then sleeps.  The call is inside the try of line
\* 71: when the callback raises, lines 76-78 end the thread.
MonitorDispatch(h) ==
    /\ Io(h).pending
    /\ LET raw == Io(h).read[Len(Io(h).read)]
           calls == _dispatch_serial_input(raw)
       IN  /\ mon_io' = SetIo(h, [Io(h) EXCEPT !.events = Io(h).events \o calls,
                                               !.pending = FALSE])
           /\ \E callback_raises \in BOOLEAN :
                /\ callback_raises => calls # << >>
                /\ handles' = IF callback_raises
                              THEN [handles EXCEPT ![h].mon = "dead"]
                              ELSE handles
    /\ last_send' = NoSend
    /\ opening' = NoDevice
    /\ reset_event' = NoEvent
    /\ UNCHANGED << serial_ports, port_keys, is_connected, sup_pc, sup_ports, sup_i,
                    connected_count, rs, sent, inbuf >>
    /\ UNCHANGED << tvars, pvars, cvars >>

\* ------------------------------------------------------------- send_message
\* No call of send_message is in progress.
NoCall == [i |-> 0, ready |-> FALSE, open |-> {}, raising |-> {}, written |-> {},
           sent_count |-> 0, message |-> << >>]

\* A readiness test that lets every call through to the loop.
NeverNotConnected(ready) == FALSE

\* Line 156: `if not self.is_connected`.
NotConnected(ready) == ~ready

\* Lines 157-158: what a call made when not connected does.
SendSkipped(message, reg, hs) ==
    [ready |-> FALSE, open |-> OpenLinks(reg, hs), raising |-> {}, written |-> {},
     sent_count |-> NoCount, log |-> "skipped_not_connected",
     message |-> message, payload |-> NoPayload]

\* An iteration of a loop that writes no more once a write has raised.
SendLinkAbort(d, reg, hs, raised, acc) ==
    IF ~hs[reg[d]].is_open THEN acc
    ELSE IF raised THEN [acc EXCEPT !.open = @ \cup {d}, !.raising = @ \cup {d}]
    ELSE IF acc.raising # {} THEN [acc EXCEPT !.open = @ \cup {d}]
    ELSE [acc EXCEPT !.open = @ \cup {d}, !.written = @ \cup {d}, !.sent_count = @ + 1]

\* Lines 161-169: one iteration of the loop, on link d.  The handle is the
\* one the registry holds for d now; when it is open, write() and flush()
\* return (sent_count += 1) or one of them raises (raised), which line 168
\* catches.  acc is what the call has done so far.
SendLink(d, reg, hs, raised, acc) ==
    IF ~hs[reg[d]].is_open THEN acc
    ELSE IF raised THEN [acc EXCEPT !.open = @ \cup {d}, !.raising = @ \cup {d}]
    ELSE [acc EXCEPT !.open = @ \cup {d}, !.written = @ \cup {d}, !.sent_count = @ + 1]

\* Lines 171-172 and the return: what the call has done.  open is the links
\* it has found open, each at its own iteration; the payload of line 164 is
\* built on each of them.
SendReturn(acc) ==
    [ready |-> acc.ready, open |-> acc.open, raising |-> acc.raising,
     written |-> acc.written, sent_count |-> acc.sent_count,
     log |-> IF acc.sent_count = 0 THEN "no_active_ports" ELSE "sent",
     message |-> acc.message,
     payload |-> IF acc.open = {} THEN NoPayload ELSE SerialPayload(acc.message)]

\* The iteration on link call.i of self.serial_ports.items(), which goes
\* through the registry as it is now, in insertion order; after the last
\* link the call returns.
SendIterate(call) ==
    IF call.i > Len(port_keys)
    THEN /\ snd' = NoCall
         /\ last_send' = SendReturn(call)
    ELSE LET d == port_keys[call.i] IN
         \E raised \in BOOLEAN :
            /\ raised => handles[serial_ports[d]].is_open
            /\ LET acc == SendLink(d, serial_ports, handles, raised, call) IN
               IF call.i < Len(port_keys)
               THEN /\ snd' = [acc EXCEPT !.i = call.i + 1]
                    /\ last_send' = NoSend
               ELSE /\ snd' = NoCall
                    /\ last_send' = SendReturn(acc)

\* Lines 154-169: the call, the readiness test and the first iteration.
send_message(message) ==
    /\ snd = NoCall
    /\ IF NotConnected(is_connected)
       THEN /\ last_send' = SendSkipped(message, serial_ports, handles)
            /\ UNCHANGED snd
       ELSE SendIterate([NoCall EXCEPT !.i = 1, !.ready = is_connected, !.message = message])
    /\ opening' = NoDevice
    /\ UNCHANGED << serial_ports, port_keys, is_connected, handles, sup_pc, sup_ports, sup_i,
                    connected_count, rs >>
    /\ reset_event' = NoEvent
    /\ UNCHANGED << tvars, pvars, dvars, cln >>

\* Lines 161-172: a later iteration of the call in progress.
send_message_next ==
    /\ snd # NoCall
    /\ SendIterate(snd)
    /\ opening' = NoDevice
    /\ UNCHANGED << serial_ports, port_keys, is_connected, handles, sup_pc, sup_ports, sup_i,
                    connected_count, rs >>
    /\ reset_event' = NoEvent
    /\ UNCHANGED << tvars, pvars, dvars, cln >>

\* ------------------------------------------------------------------ cleanup
\* No call of cleanup is in progress.
NoCleanup == [i |-> 0, port |-> 0, size |-> 0]

\* Lines 117-118: the loop over self.serial_ports.values() from link i on, up
\* to the first handle that is open: the call is then about to close it.
\* With no open handle left the call returns, and it ends too (RuntimeError)
\* when the registry has not the size it had when the loop began.
RECURSIVE CleanupFrom(_, _, _, _, _)
CleanupFrom(i, keys, reg, hs, size) ==
    IF Len(keys) # size \/ i > Len(keys) THEN NoCleanup
    ELSE IF hs[reg[keys[i]]].is_open THEN [i |-> i, port |-> reg[keys[i]], size |-> size]
    ELSE CleanupFrom(i + 1, keys, reg, hs, size)

\* Lines 115-118: the call, up to the first close().
cleanup ==
    /\ cln = NoCleanup
    /\ cln' = CleanupFrom(1, port_keys, serial_ports, handles, Len(port_keys))
    /\ last_send' = NoSend
    /\ opening' = NoDevice
    /\ reset_event' = NoEvent
    /\ UNCHANGED << tvars, pvars, dvars, snd >>
    /\ UNCHANGED << serial_ports, port_keys, is_connected, handles, sup_pc, sup_ports, sup_i,
                    connected_count, rs >>

\* Line 119: port.close() returns, and the loop goes on to the next open
\* handle; or it raises, and the exception ends the call (cleanup has no
\* try).
cleanup_close ==
    /\ cln # NoCleanup
    /\ \E ok \in BOOLEAN :
         IF ok
         THEN \E caught \in SUBSET AtTest({cln.port}) :
                /\ handles' = Close(handles, {cln.port}, caught)
                /\ cln' = CleanupFrom(cln.i + 1, port_keys, serial_ports, handles', cln.size)
         ELSE /\ cln' = NoCleanup
              /\ UNCHANGED handles
    /\ last_send' = NoSend
    /\ opening' = NoDevice
    /\ reset_event' = NoEvent
    /\ UNCHANGED << tvars, pvars, dvars, snd >>
    /\ UNCHANGED << serial_ports, port_keys, is_connected, sup_pc, sup_ports, sup_i,
                    connected_count, rs >>

\* =============================================================== TCPHandler
\* tcp_handler.py lines 17-19, the first half of an attempt: the loop test and
\* self.tcp_socket = socket.socket(...).
TcpCreate ==
    /\ tcp_pc = "loop"
    /\ IF tcp_is_connected
       THEN /\ tcp_pc' = "done"
            /\ UNCHANGED << tcp_socket, sockets >>
       ELSE /\ Len(sockets) < MaxSockets
            /\ sockets' = Append(sockets, "created")
            /\ tcp_socket' = Len(sockets) + 1
            /\ tcp_pc' = "connecting"
    /\ tcp_last_send' = "-"
    /\ tcp_wire' = NoWire
    /\ UNCHANGED << svars, pvars, dvars, cvars >>
    /\ UNCHANGED << tcp_is_connected, tcp_mon, tcp_recv, server_up >>

\* tcp_handler.py lines 36-38: is_ready().
tcp_is_ready == tcp_is_connected

\* An attempt after which a failed connect() leaves the loop.
TcpConnectOnce ==
    /\ tcp_pc = "connecting"
    /\ IF tcp_socket # 0 /\ sockets[tcp_socket] = "created" /\ server_up
       THEN /\ sockets' = [sockets EXCEPT ![tcp_socket] = "connected"]
            /\ tcp_is_connected' = TRUE
            /\ UNCHANGED tcp_socket
       ELSE /\ sockets' = IF tcp_socket # 0 THEN [sockets EXCEPT ![tcp_socket] = "closed"] ELSE sockets
            /\ tcp_socket' = 0
            /\ UNCHANGED tcp_is_connected
    /\ tcp_pc' = "done"
    /\ tcp_last_send' = "-"
    /\ tcp_wire' = NoWire
    /\ UNCHANGED << svars, pvars, dvars, cvars >>
    /\ UNCHANGED << tcp_mon, tcp_recv, server_up >>

\* Lines 20-30: connect() returns (is_connected = True, the thread returns)
\* or raises (the socket is closed, tcp_socket = None, sleep, next attempt).
TcpConnect ==
    /\ tcp_pc = "connecting"
    /\ IF tcp_socket # 0 /\ sockets[tcp_socket] = "created" /\ server_up
       THEN /\ sockets' = [sockets EXCEPT ![tcp_socket] = "connected"]
            /\ tcp_is_connected' = TRUE
            /\ tcp_pc' = "done"
            /\ UNCHANGED tcp_socket
       ELSE /\ sockets' = IF tcp_socket # 0 THEN [sockets EXCEPT ![tcp_socket] = "closed"] ELSE sockets
            /\ tcp_socket' = 0
            /\ tcp_pc' = "loop"
            /\ UNCHANGED tcp_is_connected
    /\ tcp_last_send' = "-"
    /\ tcp_wire' = NoWire
    /\ UNCHANGED << svars, pvars, dvars, cvars >>
    /\ UNCHANGED << tcp_mon, tcp_recv, server_up >>

\* Lines 14-34: setup() starts setup_worker; samyang-rm.py line 66 calls it once.
TcpSetup ==
    /\ tcp_pc = "unstarted"
    /\ tcp_pc' = "loop"
    /\ tcp_last_send' = "-"
    /\ tcp_wire' = NoWire
    /\ UNCHANGED << svars, pvars, dvars, cvars >>
    /\ UNCHANGED << tcp_socket, tcp_is_connected, sockets, tcp_mon, tcp_recv, server_up >>

\* Lines 50-69: start_monitoring() starts tcp_monitor; samyang-rm.py line 67.
TcpStartMonitoring ==
    /\ tcp_mon = "unstarted"
    /\ tcp_mon' = "running"
    /\ tcp_last_send' = "-"
    /\ tcp_wire' = NoWire
    /\ UNCHANGED << svars, pvars, dvars, cvars >>
    /\ UNCHANGED << tcp_socket, tcp_is_connected, sockets, tcp_pc, tcp_recv, server_up >>

\* What sendall() of line 44 does on a socket in state st: it returns on a
\* connected socket, raises on one that is closed or not connected, and does
\* either on a connection the peer has dropped.
SendallOutcomes(st) ==
    IF st = "connected" THEN {"sent"}
    ELSE IF st = "broken" THEN {"sent", "failed"}
    ELSE {"failed"}

\* Lines 46-48: the flag after the write.
TcpFlagAfterSend(outcome, flag) == IF outcome = "failed" THEN FALSE ELSE flag

\* Lines 40-48.
tcp_send_message(message) ==
    /\ IF tcp_socket # 0 /\ tcp_is_connected
       THEN \E outcome \in SendallOutcomes(sockets[tcp_socket]) :
              /\ tcp_last_send' = outcome
              /\ tcp_wire' = [message |-> message, payload |-> TcpPayload(message)]
              /\ tcp_is_connected' = TcpFlagAfterSend(outcome, tcp_is_connected)
       ELSE /\ tcp_last_send' = "skipped"
            /\ tcp_wire' = [message |-> message, payload |-> NoPayload]
            /\ UNCHANGED tcp_is_connected
    /\ UNCHANGED << tcp_socket, sockets, tcp_pc, tcp_mon, tcp_recv, server_up >>
    /\ UNCHANGED << svars, pvars, dvars, cvars >>

\* What the remote endpoint sends: a number as text (samyang-rm.py line 55
\* reads it with float()), and bytes that are no UTF-8.
Received == { encode(<<"-", "1">>), <<255, 254>> }

\* Lines 57-65: whether the flag is left as it is after recv() has returned
\* data.  data.decode() (line 58) and the callback (line 59) are inside the
\* try: when either raises, the bare except of line 64 clears the flag.
TcpFlagAfterData(data, callback_raises) == IsUtf8(data, 1) /\ ~callback_raises

\* Lines 53-56 and 66: the test of an iteration of tcp_monitor.  When it
\* passes, the thread calls recv() on the socket, which has no timeout: on a
\* closed socket recv() raises at once (is_connected = False, line 65); on
\* any other the thread waits inside recv().  When the test fails the
\* thread sleeps.
tcp_monitor ==
    /\ tcp_mon = "running"
    /\ tcp_recv = "-"
    /\ IF tcp_socket # 0 /\ tcp_is_connected
       THEN IF sockets[tcp_socket] = "closed"
            THEN /\ tcp_is_connected' = FALSE
                 /\ UNCHANGED tcp_recv
            ELSE /\ tcp_recv' = IF sockets[tcp_socket] = "connected" THEN "live" ELSE "dropped"
                 /\ UNCHANGED tcp_is_connected
       ELSE UNCHANGED << tcp_is_connected, tcp_recv >>
    /\ tcp_last_send' = "-"
    /\ tcp_wire' = NoWire
    /\ UNCHANGED << svars, pvars, dvars, cvars >>
    /\ UNCHANGED << tcp_socket, sockets, tcp_pc, tcp_mon, server_up >>

\* Lines 56-66: the recv() the thread waits in returns.  On a live
\* connection it returns when the remote endpoint sends, whether or not the
\* socket has been closed on this side meanwhile; on a dropped one it
\* returns b"" or raises: is_connected = False.
tcp_monitor_recv ==
    /\ tcp_recv # "-"
    /\ IF tcp_recv = "live"
       THEN \E data \in Received, callback_raises \in BOOLEAN :
              tcp_is_connected' = IF TcpFlagAfterData(data, callback_raises)
                                  THEN tcp_is_connected ELSE FALSE
       ELSE tcp_is_connected' = FALSE
    /\ tcp_recv' = "-"
    /\ tcp_last_send' = "-"
    /\ tcp_wire' = NoWire
    /\ UNCHANGED << svars, pvars, dvars, cvars >>
    /\ UNCHANGED << tcp_socket, sockets, tcp_pc, tcp_mon, server_up >>

\* Lines 71-74.
tcp_cleanup ==
    /\ tcp_socket # 0
    /\ sockets' = [sockets EXCEPT ![tcp_socket] = "closed"]
    /\ tcp_last_send' = "-"
    /\ tcp_wire' = NoWire
    /\ UNCHANGED << svars, pvars, dvars, cvars >>
    /\ UNCHANGED << tcp_socket, tcp_is_connected, tcp_pc, tcp_mon, tcp_recv, server_up >>

\* The remote endpoint stops: it refuses connections and every established
\* connection is dropped.
ServerDown ==
    /\ server_up
    /\ server_up' = FALSE
    /\ sockets' = [i \in 1..Len(sockets) |-> IF sockets[i] = "connected" THEN "broken" ELSE sockets[i]]
    /\ tcp_recv' = IF tcp_recv = "live" THEN "dropped" ELSE tcp_recv
    /\ tcp_last_send' = "-"
    /\ tcp_wire' = NoWire
    /\ UNCHANGED << svars, pvars, dvars, cvars >>
    /\ UNCHANGED << tcp_socket, tcp_is_connected, tcp_pc, tcp_mon >>

\* The remote endpoint accepts connections (again).
ServerUp ==
    /\ ~server_up
    /\ server_up' = TRUE
    /\ tcp_last_send' = "-"
    /\ tcp_wire' = NoWire
    /\ UNCHANGED << svars, pvars, dvars, cvars >>
    /\ UNCHANGED << tcp_socket, tcp_is_connected, sockets, tcp_pc, tcp_mon, tcp_recv >>

\* ------------------------------------------------------------ specification
\* __init__ (lines 10-26): the empty registry, and setup() has started
\* setup_worker.
Init ==
    /\ serial_ports = << >>
    /\ port_keys = << >>
    /\ is_connected = FALSE
    /\ handles = << >>
    /\ sup_pc = "loop"
    /\ sup_ports = << >>
    /\ sup_i = 1
    /\ connected_count = 0
    /\ rs = [t \in Threads |-> IdleReset]
    /\ reset_event = NoEvent
    /\ opening = NoDevice
    /\ last_send = NoSend
    /\ tcp_socket = 0
    /\ tcp_is_connected = FALSE
    /\ sockets = << >>
    /\ tcp_pc = "unstarted"
    /\ tcp_mon = "unstarted"
    /\ tcp_recv = "-"
    /\ server_up = FALSE
    /\ tcp_last_send = "-"
    /\ tcp_wire = NoWire
    /\ p_line = << >>
    /\ p_event = NotCalled
    /\ sent = [d \in Comports |-> 0]
    /\ inbuf = [d \in Comports |-> << >>]
    /\ mon_io = << >>
    /\ snd = NoCall
    /\ cln = NoCleanup

\* Lines 53-56: the reset pass of setup_worker.
SupervisorReset ==
    /\ sup_pc = "reset_pass"
    /\ \/ ResetEnter("setup_worker")
       \/ ResetToggleClose("setup_worker")
       \/ ResetReopen("setup_worker")
       \/ ResetReturn("setup_worker")

\* A reset operation in progress in a calling thread.
CallerReset ==
    \E c \in Callers :
       \/ ResetEnter(c)
       \/ ResetToggleClose(c)
       \/ ResetReopen(c)
       \/ ResetReturn(c)

\* The port_monitor threads.
Monitors == \E h \in Handles : port_monitor(h)

\* The threads the handler starts itself.
Background == Enumerate \/ ScanPort \/ RoundEnd \/ SupervisorReset \/ Monitors

\* The SerialHandler with a thread that calls the reset operations.
Next ==
    \/ Background
    \/ CallerReset
    \/ \E c \in Callers : reset_and_reconnect_ports(c)
    \/ \E c \in Callers, d \in Comports : reset_and_reconnect_port(c, d)

Spec == Init /\ [][Next]_vars

\* The SerialHandler with a thread that resets every link and a thread that
\* sends.
SendNext ==
    \/ Background
    \/ CallerReset
    \/ \E c \in Callers : reset_and_reconnect_ports(c)
    \/ send_message(Sample)
    \/ send_message_next

SendSpec == Init /\ [][SendNext]_vars

\* The SerialHandler with a thread that calls the reset operations and a
\* thread that calls cleanup().
ShutdownNext ==
    \/ Next
    \/ cleanup
    \/ cleanup_close

ShutdownSpec == Init /\ [][ShutdownNext]_vars

\* The SerialHandler left to its own threads.  The scheduler keeps
\* setup_worker running; a port_monitor runs too, but whether a read raises is
\* the device's choice, so no fairness forces its steps.
FairSpec ==
    /\ Init
    /\ [][Background]_vars
    /\ WF_vars(Enumerate \/ ScanPort \/ RoundEnd \/ SupervisorReset)

TcpSupervisor == TcpCreate \/ TcpConnect

\* The TCPHandler alone.
TcpNext ==
    \/ TcpSetup
    \/ TcpStartMonitoring
    \/ TcpSupervisor
    \/ tcp_monitor
    \/ tcp_monitor_recv
    \/ \E m \in Messages : tcp_send_message(m)
    \/ tcp_cleanup
    \/ ServerDown
    \/ ServerUp

TcpSpec == Init /\ [][TcpNext]_vars

\* setup_worker and tcp_monitor are threads the scheduler keeps running, and
\* the main program calls setup() and start_monitoring() (samyang-rm.py lines
\* 66-67).  A recv() on a dropped connection returns; on a live one it
\* returns when the remote endpoint sends, which nothing forces.
TcpFairSpec ==
    /\ TcpSpec
    /\ WF_vars(TcpSetup)
    /\ WF_vars(TcpStartMonitoring)
    /\ WF_vars(TcpSupervisor)
    /\ WF_vars(tcp_monitor)
    /\ WF_vars(tcp_recv = "dropped" /\ tcp_monitor_recv)

\* The two supervisors side by side, as in a program that constructs both
\* handlers, with a remote endpoint that comes and goes.
RetryNext ==
    \/ Background
    \/ TcpSetup
    \/ TcpSupervisor
    \/ ServerDown
    \/ ServerUp

\* Both setup_worker threads are kept running by the scheduler, and setup() of
\* the TCPHandler is called by the program.
RetrySpec ==
    /\ Init
    /\ [][RetryNext]_vars
    /\ WF_vars(Enumerate \/ ScanPort \/ RoundEnd \/ SupervisorReset)
    /\ WF_vars(TcpSetup)
    /\ WF_vars(TcpSupervisor)

\* Lines 84-85: _dispatch_serial_input calls _parse_serial_data on a line.
ParseLine ==
    /\ p_event = NotCalled
    /\ \E s \in Lines :
         /\ p_line' = s
         /\ p_event' = _parse_serial_data(s)
    /\ UNCHANGED << svars, tvars, dvars, cvars >>

\* The line parser alone, on every line of Lines.
ParseSpec == Init /\ [][ParseLine]_vars

\* The SerialHandler with its devices: the handler's own threads, the lines
\* the devices send, and the monitors that read and dispatch them.
DeviceNext ==
    \/ Background
    \/ \E d \in Comports : DeviceSend(d)
    \/ \E h \in Handles : MonitorRead(h)
    \/ \E h \in Handles : MonitorDispatch(h)

DeviceSpec == Init /\ [][DeviceNext]_vars

\* The scenario of the serial wire format: the first data port sends its
\* lines, the other devices are silent, and a collaborator sends.
ScenarioNext ==
    \/ Background
    \/ DeviceSend("/dev/ttyUSB0")
    \/ \E h \in Handles : MonitorRead(h)
    \/ \E h \in Handles : MonitorDispatch(h)
    \/ send_message(Sample)
    \/ send_message_next

ScenarioSpec == Init /\ [][ScenarioNext]_vars

\* Both relays with the text of the message varied: the supervisors bring the
\* handlers to readiness and the collaborator sends.
RelayNext ==
    \/ Enumerate \/ ScanPort \/ RoundEnd \/ SupervisorReset
    \/ \E m \in Messages : send_message(m)
    \/ send_message_next
    \/ TcpSetup
    \/ TcpStartMonitoring
    \/ TcpSupervisor
    \/ tcp_monitor
    \/ tcp_monitor_recv
    \/ ServerDown
    \/ ServerUp
    \/ \E m \in Messages : tcp_send_message(m)

RelaySpec == Init /\ [][RelayNext]_vars

\* =================================================================== claims
\* A link of the registry: its current handle.
Link(d) == handles[serial_ports[d]]

\* ------------------------------------------------------------------------ C1
\* C1: readiness is monotonic: once is_ready() has returned true, it returns
\* true in every later state, whatever the threads do and even when every
\* link of the registry has been closed or has failed.
ReadinessMonotonic == [][is_ready => is_ready']_vars

\* Ready, with every handle of the registry closed and no monitor left.
ReadyWithEveryLinkClosed ==
    /\ is_ready
    /\ Cardinality(DOMAIN serial_ports) = 2
    /\ OpenLinks(serial_ports, handles) = {}
    /\ \A d \in DOMAIN serial_ports : Link(d).mon = "dead"

\* ------------------------------------------------------------------------ C2
\* C2 as stated: a send_message made while the readiness flag is false writes
\* to no link and reports a success count of zero.
SendWhenNotReadyReportsZero ==
    (last_send # NoSend /\ ~last_send.ready)
        => (last_send.written = {} /\ last_send.sent_count = 0)

\* C2 as amended: a send_message made while the readiness flag is false
\* writes to no link, changes neither the registry, the handles nor the
\* readiness flag, and returns before any success count exists: what it
\* reports is the "not connected" skip, not a count of zero.
SendWhenNotReadySkips ==
    [][(last_send' # NoSend /\ ~last_send'.ready)
          => /\ last_send'.written = {}
             /\ last_send'.sent_count = NoCount
             /\ last_send'.log = "skipped_not_connected"
             /\ UNCHANGED << serial_ports, port_keys, handles, is_connected >>]_vars

\* A send while not ready although discovery has already opened a link.
SentWhileNotReady ==
    /\ last_send.log = "skipped_not_connected"
    /\ last_send.open # {}
    /\ ~is_connected

\* ------------------------------------------------------------------------ C3
\* C3: a send_message made when ready, that finds N links open (each at its
\* own iteration of the loop) of which exactly one, k, raises on the write,
\* writes to each of the other N-1 open links, wherever k is in the iteration
\* order, and counts N-1 successes.
BroadcastPartialFailure ==
    \A k \in Comports :
        (last_send.ready /\ last_send.raising = {k} /\ k \in last_send.open)
            => /\ last_send.written = last_send.open \ {k}
               /\ last_send.sent_count = Cardinality(last_send.open) - 1
               /\ last_send.log = IF last_send.open = {k} THEN "no_active_ports" ELSE "sent"

\* Two open links, the first in iteration order raises, the second is written.
FirstLinkRaises ==
    /\ last_send.ready
    /\ Cardinality(last_send.open) = 2
    /\ last_send.raising = {port_keys[1]}
    /\ last_send.written = {port_keys[2]}

\* ------------------------------------------------------------------------ C4
\* C4: an identity of the excluded-device list is never passed to an open
\* attempt, never a key of the registry, and never has a handle or a Monitor,
\* in any discovery round and whatever the OS enumerates.
DiscoveryExclusion ==
    /\ opening \notin excluded_ports
    /\ DOMAIN serial_ports \cap excluded_ports = {}
    /\ \A h \in Handles : handles[h].dev \notin excluded_ports

\* A round has gone through a list that has an excluded identity before a
\* data port, and has opened the data port.
RoundPassedExcluded ==
    /\ sup_pc = "scan"
    /\ sup_i > Len(sup_ports)
    /\ Len(sup_ports) >= 2
    /\ sup_ports[1] \in excluded_ports
    /\ connected_count > 0

\* ------------------------------------------------------------------------ C5
\* C5: when reset_and_reconnect_port(d) has succeeded on an open link, the
\* old handle is closed, the registry maps d to a new open handle, and exactly
\* one Monitor is running for d.
ResetKeepsOneMonitor ==
    (reset_event.kind = "return" /\ reset_event.ret = "True")
        => LET d == reset_event.dev IN
           /\ ~handles[reset_event.port].is_open
           /\ d \in DOMAIN serial_ports
           /\ serial_ports[d] # reset_event.port
           /\ Link(d).is_open
           /\ Cardinality(RunningMonitors(d)) = 1

\* ------------------------------------------------------------------------ C6
\* C6: when reset_and_reconnect_port(d) has failed (the toggle, the close or
\* the reopen raised), d is not in the registry, no handle of d is open, and
\* a discovery round would open d again.
ResetFailureRemovesLink ==
    (reset_event.kind = "return" /\ reset_event.exc)
        => LET d == reset_event.dev IN
           /\ d \notin DOMAIN serial_ports
           /\ \A h \in Handles : handles[h].dev = d => ~handles[h].is_open
           /\ Eligible(d, serial_ports)

\* ------------------------------------------------------------------------ C7
\* C7: at most one Monitor reads from an open handle of any link identity,
\* in every reachable state, concurrent reset passes included.
SingleReaderPerLink == \A d \in Comports : Cardinality(ReadingMonitors(d)) <= 1

\* ------------------------------------------------------------------------ C8
\* The Monitor of link d has terminated on a read exception (its handle is
\* still open), and setup_worker is past its reset pass.
LinkFatal(d) ==
    /\ d \in DOMAIN serial_ports
    /\ Link(d).is_open
    /\ Link(d).mon = "dead"
    /\ sup_pc = "done"

\* Link d has an open handle with a running Monitor.
Recovered(d) == d \in DOMAIN serial_ports /\ Link(d).is_open /\ Link(d).mon = "running"

\* C8: when the Monitor of a link has terminated on a read exception, the
\* supervisor eventually rediscovers or resets the link, so that its identity
\* again has an open handle with a running Monitor.  (Stated for the failures
\* that come after the supervisor's reset pass.)
LinkFatalRecovery == \A d \in Comports : [](LinkFatal(d) => <>Recovered(d))

\* ------------------------------------------------------------------------ C9
\* C9: when TCPHandler.send_message fails on the write, is_connected becomes
\* false, and the supervisor then re-establishes the connection: provided the
\* remote endpoint accepts connections from some point on, is_ready() is
\* eventually true again.
TcpSendFailureRecovers ==
    (<>[]server_up)
        => [](tcp_last_send = "failed" => (~tcp_is_connected /\ <>tcp_is_connected))

\* ----------------------------------------------------------------------- C10
\* C10: a call of reset_and_reconnect_ports() changes no link state by itself
\* and takes exactly the identities that are in the registry at the call, none
\* when the registry is empty; a thread in reset_and_reconnect_ports() only
\* ever resets identities of the registry; and reset_and_reconnect_port(d)
\* for a d that is not in the registry returns False, opens nothing, starts no
\* Monitor and leaves the registry as it is.
ResetAllIdempotent ==
    [][/\ reset_event'.kind = "reset_and_reconnect_ports"
          => /\ Range(rs'[reset_event'.thread].todo) = DOMAIN serial_ports
             /\ Len(rs'[reset_event'.thread].todo) = Cardinality(DOMAIN serial_ports)
             /\ UNCHANGED << serial_ports, port_keys, handles, is_connected >>
             /\ opening' = NoDevice
       /\ \A t \in Threads :
             rs'[t].pc = "dtr_low" => rs'[t].dev \in DOMAIN serial_ports
       /\ (reset_event'.kind = "return" /\ reset_event'.dev \notin DOMAIN serial_ports)
          => /\ reset_event'.ret = "False"
             /\ ~reset_event'.exc
             /\ UNCHANGED << serial_ports, port_keys, handles, is_connected >>
             /\ opening' = NoDevice]_vars

\* reset_and_reconnect_ports() has been called on the empty registry: its
\* loop has nothing to reset.
ResetAllOnEmptyRegistry ==
    /\ reset_event.kind = "reset_and_reconnect_ports"
    /\ serial_ports = << >>
    /\ rs[reset_event.thread].pc = "iter"
    /\ rs[reset_event.thread].todo = << >>

\* ----------------------------------------------------------------------- C11
\* The step just taken has called serial.Serial(...) and the call has raised.
OpenRaised == opening' # NoDevice /\ Len(handles') = Len(handles)

\* C11: the registry never holds a half-constructed link: a handle is stored
\* under d only in the step in which serial.Serial(d, ...) has returned it,
\* open; an open that raises, in discovery or in reset_and_reconnect_port,
\* stores nothing and adds no key; so every handle of the registry is one an
\* open of its own identity has returned.
RegistryHoldsOpenedHandles ==
    [][/\ \A d \in DOMAIN serial_ports' :
             (d \notin DOMAIN serial_ports \/ serial_ports'[d] # serial_ports[d])
                 => LET h == serial_ports'[d] IN
                    /\ opening' = d
                    /\ h = Len(handles) + 1
                    /\ h \in DOMAIN handles'
                    /\ handles'[h].dev = d
                    /\ handles'[h].is_open
       /\ OpenRaised => UNCHANGED << serial_ports, port_keys >>
       /\ \A d \in DOMAIN serial_ports' :
             /\ serial_ports'[d] \in DOMAIN handles'
             /\ handles'[serial_ports'[d]].dev = d]_vars

\* The reopen of reset_and_reconnect_port has raised: the registry still maps
\* the identity to the handle the reset has closed.
ReopenRaisedKeepsOldHandle ==
    /\ reset_event.kind = "return"
    /\ reset_event.exc
    /\ opening = reset_event.dev
    /\ opening \in DOMAIN serial_ports
    /\ serial_ports[opening] = reset_event.port
    /\ ~Link(opening).is_open

\* ----------------------------------------------------------------------- C12
\* C12: every payload a send primitive passes to a link is the text of the
\* message followed by the line terminator (byte 10), on the serial relay
\* and on the TCP relay; and a serial send made when ready passes it to every
\* link that is open at the call (it is written unless the write raises).
OutboundWireFormat ==
    /\ last_send.payload # NoPayload
          => last_send.payload = encode(last_send.message) \o <<10>>
    /\ (last_send # NoSend /\ last_send.ready)
          => /\ last_send.written = last_send.open \ last_send.raising
             /\ last_send.open # {} => last_send.payload # NoPayload
    /\ tcp_last_send \in {"sent", "failed"}
          => tcp_wire.payload = encode(tcp_wire.message) \o <<10>>

\* ----------------------------------------------------------------------- C13
\* C13: the rules of the line parser, in priority order: the empty line gives
\* no event; a line of exactly 8 letters and digits gives RFID_DETECTED, also
\* when it reads as a number; "a" gives RFID_DETECTED; any other line that
\* float() accepts gives SCORE_RECEIVED with that value; every other line
\* gives UNKNOWN; every event carries the line as raw text and the source
\* SERIAL, and only a SCORE_RECEIVED event carries a score.
ParserRules ==
    LET Rfid == Len(p_line) = 8 /\ \A i \in 1..8 : IsAlnumChar(p_line[i])
        Legacy == p_line = <<"a">>
    IN  p_event # NotCalled =>
        /\ p_line = << >> <=> p_event = None
        /\ p_line # << >> => p_event.raw = p_line /\ p_event.source = "SERIAL"
        /\ (Rfid \/ Legacy) <=> p_event.kind = "RFID_DETECTED"
        /\ (p_line # << >> /\ ~Rfid /\ ~Legacy /\ IsFloat(p_line))
              <=> p_event.kind = "SCORE_RECEIVED"
        /\ p_event.kind = "SCORE_RECEIVED" <=> p_event.score # NoScore
        /\ p_event.kind = "SCORE_RECEIVED" => p_event.score = float(p_line)
        /\ (p_line # << >> /\ ~Rfid /\ ~Legacy /\ ~IsFloat(p_line))
              <=> p_event.kind = "UNKNOWN"

\* A line of 8 digits, which float() accepts, has been parsed as an RFID.
EightDigitsAreRfid ==
    /\ Len(p_line) = 8
    /\ AllDigits(p_line)
    /\ IsFloat(p_line)
    /\ p_event.kind = "RFID_DETECTED"
    /\ p_event.raw = p_line

\* ----------------------------------------------------------------------- C14
\* The device of the scenario and its RPM lines.
DEV1 == "/dev/ttyUSB0"

RpmLines ==
    { <<"R", "P", "M", ":", "1", "8", "0", ".", "0">>,
      <<"R", "P", "M", ":", "2", "0", "0", ".", "0">> }

PulseLine == <<"P", "U", "L", "S", "E", ":", "i", "g", "n", "o", "r", "e", "d">>

\* C14: with a device that sends "RPM:180.0", "PULSE:ignored", "RPM:200.0",
\* "kCal:12.5": when a Monitor of the device dispatches an RPM line, the
\* callback receives one SCORE_RECEIVED event for it; the Monitor is still
\* running when it has dispatched the PULSE line; and a send made when ready
\* is written to the device when its link is open and the write does not
\* raise.
WireFormatScenario ==
    [][/\ \A h \in DOMAIN mon_io :
             (mon_io[h].pending /\ ~mon_io'[h].pending /\ handles[h].dev = DEV1)
                 => LET raw == mon_io[h].read[Len(mon_io[h].read)]
                        got == mon_io'[h].events
                    IN  /\ raw \in RpmLines
                              => /\ Len(got) = Len(mon_io[h].events) + 1
                                 /\ got[Len(got)].kind = "SCORE_RECEIVED"
                                 /\ got[Len(got)].raw = raw
                        /\ raw = PulseLine => handles'[h].mon = "running"
       /\ (last_send' # NoSend /\ last_send'.ready
               /\ DEV1 \in last_send'.open \ last_send'.raising)
             => DEV1 \in last_send'.written]_vars

\* ----------------------------------------------------------------------- C18
\* The lines port_monitor h has passed to _dispatch_serial_input, in the
\* order it has read them.
Dispatched(h) ==
    IF mon_io[h].pending
    THEN SubSeq(mon_io[h].read, 1, Len(mon_io[h].read) - 1)
    ELSE mon_io[h].read

\* C18: for every Monitor, the events the callback has received from it are,
\* one for one and in the same order, the non-empty lines it has read and
\* dispatched: one call for each non-empty stripped line, none for an empty
\* one; nothing relates the calls of two Monitors.
EventDispatch ==
    \A h \in DOMAIN mon_io :
        LET lines == SelectSeq(Dispatched(h), LAMBDA r : r # << >>)
            got == mon_io[h].events
        IN  /\ Len(got) = Len(lines)
            /\ \A i \in 1..Len(got) : got[i] # None /\ got[i].raw = lines[i]

\* A Monitor of the second device has read its empty line and its number and
\* the callback has its one event, while a Monitor of the first device has
\* delivered events too.
BlankLineSkipped ==
    \E h, g \in DOMAIN mon_io :
        /\ handles[h].dev = "/dev/ttyUSB1"
        /\ Len(mon_io[h].read) = 2
        /\ mon_io[h].read[1] = << >>
        /\ ~mon_io[h].pending
        /\ Len(mon_io[h].events) = 1
        /\ mon_io[h].events[1].kind = "SCORE_RECEIVED"
        /\ handles[g].dev = DEV1
        /\ Len(mon_io[g].events) >= 2

\* ----------------------------------------------------------------------- C15
\* A step of a port_monitor thread: a read, a dispatch (which ends the
\* thread when the callback raises), or an iteration that reads nothing or
\* ends the thread on a read exception.
MonitorStep ==
    \E h \in Handles : port_monitor(h) \/ MonitorRead(h) \/ MonitorDispatch(h)

\* C15: a step of a Monitor changes neither the keys of the registry, nor the
\* handle stored under a key, nor whether a handle is open, nor the readiness
\* flag; a step that changes the registry or the flag is a step of the
\* supervisor's discovery or of a reset operation.
MonitorLeavesRegistry ==
    [][/\ \/ /\ UNCHANGED << serial_ports, port_keys, is_connected >>
             /\ \A h \in Handles : handles'[h].is_open = handles[h].is_open
          \/ ~MonitorStep
       /\ (serial_ports' # serial_ports \/ port_keys' # port_keys
               \/ is_connected' # is_connected)
             => (ScanPort \/ RoundEnd \/ \E t \in Threads : ResetReopen(t))]_vars

\* A Monitor has read and dispatched a line and has then ended on an
\* exception; the registry still maps its identity to its open handle.
MonitorEndedLinkKept ==
    \E h \in DOMAIN mon_io :
        /\ handles[h].mon = "dead"
        /\ handles[h].is_open
        /\ handles[h].dev \in DOMAIN serial_ports
        /\ serial_ports[handles[h].dev] = h
        /\ Len(mon_io[h].events) >= 1
        /\ is_connected

\* ----------------------------------------------------------------------- C16
\* The activation of the reset pass in setup_worker.
Pass == rs["setup_worker"]

\* C16: the readiness flag becomes true only at the end of a discovery round
\* in which an open has succeeded (connected_count counts the opens that have
\* returned); the supervisor then calls reset_and_reconnect_port for the
\* identities of the registry, each once and in turn, and returns only when
\* none is left, which it eventually does; at the end of a round in which no
\* open has succeeded the flag stays false and the supervisor goes back to
\* the head of its loop, and it keeps doing so while the flag is false.
SupervisorOrdering ==
    /\ [][/\ connected_count' > connected_count
               => /\ connected_count' = connected_count + 1
                  /\ Len(handles') = Len(handles) + 1
                  /\ opening' # NoDevice
          /\ (~is_connected /\ is_connected')
               => /\ sup_pc = "scan"
                  /\ connected_count > 0
                  /\ sup_pc' = "reset_pass"
                  /\ Pass'.todo = port_keys
                  /\ Range(port_keys) = DOMAIN serial_ports
                  /\ Len(port_keys) = Cardinality(DOMAIN serial_ports)
          /\ (sup_pc = "scan" /\ sup_pc' # "scan" /\ connected_count = 0)
               => (~is_connected' /\ sup_pc' = "loop")
          /\ (sup_pc = "reset_pass" /\ Pass'.todo # Pass.todo)
               => /\ Pass'.todo = Tail(Pass.todo)
                  /\ reset_event'.kind = "return"
                  /\ reset_event'.thread = "setup_worker"
                  /\ reset_event'.dev = Head(Pass.todo)
          /\ (sup_pc # "done" /\ sup_pc' = "done")
               => (sup_pc = "reset_pass" /\ is_connected /\ Pass.todo = << >>)
          /\ sup_pc = "done" => sup_pc' = "done"]_vars
    /\ (is_connected ~> sup_pc = "done")
    /\ (~is_connected ~> (sup_pc = "loop" \/ is_connected))

\* The supervisor has returned after a pass over a registry of two identities.
SupervisorDoneAfterPass ==
    /\ sup_pc = "done"
    /\ is_connected
    /\ Cardinality(DOMAIN serial_ports) = 2
    /\ reset_event.kind = "-"
    /\ Len(handles) = MaxHandles

\* ----------------------------------------------------------------------- C17
\* A step of the serial supervisor in which the attempt succeeds:
\* comports() returns a list that holds a device to open, and
\* serial.Serial() on such a device returns.
SerialAttemptSucceeds ==
    /\ (sup_pc = "loop" /\ sup_pc' = "scan")
          => \E i \in 1..Len(sup_ports') : Eligible(sup_ports'[i], serial_ports)
    /\ (sup_pc = "scan" /\ sup_i' = sup_i + 1 /\ Eligible(sup_ports[sup_i], serial_ports))
          => connected_count' = connected_count + 1

\* A state in which a connect attempt of the TCP supervisor would succeed:
\* the endpoint accepts connections (and the supervisor can still create a
\* socket, of the MaxSockets there are).
TcpAttemptSucceeds ==
    /\ server_up
    /\ (tcp_pc = "loop" /\ ~tcp_is_connected) => Len(sockets) < MaxSockets

\* C17: each supervisor leaves its loop only when a connection has succeeded:
\* after any failed enumeration, open or connect it is back at the head of
\* its loop, and it goes on to another attempt; a failed connect of the TCP
\* supervisor closes the socket of the attempt and leaves tcp_socket None and
\* is_connected false.  Hence, if from some point on the attempts succeed,
\* is_ready() of that handler eventually returns true.
UnboundedRetry ==
    /\ [][/\ (sup_pc # "done" /\ sup_pc' = "done") => is_connected
          /\ (tcp_pc # "done" /\ tcp_pc' = "done") => tcp_is_connected'
          /\ ~is_connected' => sup_pc' \in {"loop", "scan"}
          /\ ~tcp_is_connected' => tcp_pc' \in {"unstarted", "loop", "connecting"}
          /\ (tcp_pc = "connecting" /\ tcp_pc' # "connecting" /\ ~tcp_is_connected')
                => /\ tcp_pc' = "loop"
                   /\ tcp_socket # 0
                   /\ sockets'[tcp_socket] = "closed"
                   /\ tcp_socket' = 0]_vars
    /\ (~is_connected ~> (sup_pc = "loop" \/ is_connected))
    /\ ((tcp_pc = "loop" /\ ~tcp_is_connected /\ Len(sockets) < MaxSockets)
            ~> tcp_pc = "connecting")
    /\ (<>[][SerialAttemptSucceeds]_vars => <>is_ready)
    /\ (<>[]TcpAttemptSucceeds => <>tcp_is_ready)

\* Both handlers are ready, the TCPHandler after two failed attempts.
ReadyAfterFailedAttempts ==
    /\ is_ready
    /\ tcp_is_ready
    /\ Len(sockets) = 3
    /\ sockets[1] = "closed"
    /\ sockets[2] = "closed"
    /\ sockets[3] = "connected"

\* ----------------------------------------------------------------------- C19
\* C19: no step removes an identity from the registry; once the readiness flag
\* is true no step adds one either (a reset only replaces the handle of an
\* identity the registry holds), so the keys and their order stay as they
\* are; is_ready() true implies a registry that is not empty; and a
\* send_message goes through its loop only when ready, the keys of the
\* registry staying as they are from its first iteration to its return.
RegistryKeysFrozen ==
    [][/\ DOMAIN serial_ports \subseteq DOMAIN serial_ports'
       /\ Range(port_keys') = DOMAIN serial_ports'
       /\ is_connected
            => /\ DOMAIN serial_ports' = DOMAIN serial_ports
               /\ port_keys' = port_keys
       /\ is_ready' => DOMAIN serial_ports' # {}
       /\ (snd # NoCall \/ snd' # NoCall \/ last_send'.log \in {"sent", "no_active_ports"})
            => /\ is_ready
               /\ port_keys' = port_keys]_vars

\* After readiness, while a send_message is in its loop, a reset has replaced
\* the handle of one of the two identities of the registry.
HandleReplacedAfterReady ==
    /\ is_ready
    /\ snd # NoCall
    /\ Cardinality(DOMAIN serial_ports) = 2
    /\ reset_event.kind = "return"
    /\ reset_event.ret = "True"
    /\ serial_ports[reset_event.dev] = MaxHandles
    /\ reset_event.port # MaxHandles

\* ----------------------------------------------------------------------- C20
\* C20: in every reachable state, every serial handle that is open is the
\* handle the registry maps its identity to, resets that run concurrently
\* included (so a cleanup() that runs when no reset is in progress closes
\* every open handle).
NoOpenHandleLeaked ==
    \A h \in Handles :
       handles[h].is_open
          => /\ handles[h].dev \in DOMAIN serial_ports
             /\ serial_ports[handles[h].dev] = h
====
